---- MODULE Spec2Model ----
(***************************************************************************)
(* The interaction state of smart-research-frontend/src/App.js: the seven  *)
(* useState cells of App, the two simulated asynchronous operations        *)
(* (uploadFile, askQuestion) with their pending setTimeout continuations,  *)
(* and the event handlers bound in the JSX.                                *)
(*                                                                         *)
(* Strings are sequences of one-character strings; a fixed literal of the  *)
(* source is kept as one token.  Handlers are state transformers on the    *)
(* record St of the component's state; an action applies one transformer.  *)
(***************************************************************************)
EXTENDS Naturals, Sequences, FiniteSets

VARIABLES file, question, report, isUploading, isAsking, uploadStatus,
          isDragging, uploadTimers, askTimers, lastEvent

progVars == <<file, question, report, isUploading, isAsking, uploadStatus,
              isDragging, uploadTimers, askTimers>>
vars == <<file, question, report, isUploading, isAsking, uploadStatus,
          isDragging, uploadTimers, askTimers, lastEvent>>

-----------------------------------------------------------------------------
(* Bounds *)

\* longest question text typed into the input
MaxQuestionLen == 2
\* most uploadFile continuations awaiting their timer when uploadFile is
\* called past its button
MaxInFlight == 2

-----------------------------------------------------------------------------
(* Values *)

Null == [kind |-> "null"]
Undefined == [kind |-> "undefined"]

PdfType == "application/pdf"

MkFile(n, t) == [kind |-> "File", name |-> n, type |-> t]

\* the File objects a picker or a drag gesture can deliver
Files ==
    { MkFile(<<"a", ".", "p", "d", "f">>, PdfType),
      MkFile(<<"b", ".", "p", "d", "f">>, PdfType),
      MkFile(<<"c", ".", "p", "d", "f">>, "application/x-pdf") }

\* files[0] of a FileList: a File, or undefined when the list is empty
FileListHead == Files \cup {Undefined}

\* JavaScript truthiness of a value held in the file cell
Truthy(v) == v \notin {Null, Undefined}

Alphabet == {" ", "a"}
WhiteSpace == {" ", "\t", "\n", "\r"}

RECURSIVE SeqsUpTo(_)
SeqsUpTo(n) ==
    IF n = 0 THEN {<<>>}
    ELSE LET shorter == SeqsUpTo(n - 1)
         IN  shorter \cup { Append(s, c) : s \in shorter, c \in Alphabet }

\* e.target.value of the question input
Questions == SeqsUpTo(MaxQuestionLen)

RECURSIVE TrimStart(_)
TrimStart(s) ==
    IF s = <<>> THEN s
    ELSE IF Head(s) \in WhiteSpace THEN TrimStart(Tail(s)) ELSE s

RECURSIVE TrimEnd(_)
TrimEnd(s) ==
    IF s = <<>> THEN s
    ELSE IF s[Len(s)] \in WhiteSpace THEN TrimEnd(SubSeq(s, 1, Len(s) - 1))
    ELSE s

\* String.prototype.trim
trim(s) == TrimEnd(TrimStart(s))

\* a delay promise that can reject as well as resolve
DelayMayReject == {"resolve", "reject"}

\* how  new Promise(resolve => setTimeout(resolve, 2000))  settles
UploadDelayOutcomes == {"resolve"}

\* how  new Promise(resolve => setTimeout(resolve, 3000))  settles
AskDelayOutcomes == {"resolve"}

UploadSuccess(f) ==
    [type |-> "success", message |-> <<"PDF uploaded: ">> \o f.name]

UploadError ==
    [type |-> "error", message |-> <<"Upload failed. Please try again.">>]

ReportPrefix ==
    <<"Based on the uploaded document, here's what I found regarding ", "\"">>
ReportSuffix ==
    <<"\"", ":\n\nThis is a simulated response ... premium styling.">>

\* the report with the question trimmed before it is echoed
ReportFor_Trimmed(q) == ReportPrefix \o trim(q) \o ReportSuffix

ReportFor(q) == ReportPrefix \o q \o ReportSuffix

ReportError == <<"Error processing your question. Please try again.">>

-----------------------------------------------------------------------------
(* The component's state as one record, and its handlers as transformers *)

St ==
    [file |-> file, question |-> question, report |-> report,
     isUploading |-> isUploading, isAsking |-> isAsking,
     uploadStatus |-> uploadStatus, isDragging |-> isDragging,
     uploadTimers |-> uploadTimers, askTimers |-> askTimers]

InitState ==
    [file |-> Null, question |-> <<>>, report |-> <<>>,
     isUploading |-> FALSE, isAsking |-> FALSE,
     uploadStatus |-> Null, isDragging |-> FALSE,
     uploadTimers |-> <<>>, askTimers |-> <<>>]

\* uploadFile without its first line
uploadFile_NoEarlyReturn(s) ==
    [s EXCEPT !.isUploading = TRUE,
              !.uploadStatus = Null,
              !.uploadTimers = Append(@, s.file)]

\* uploadFile without setUploadStatus(null)
uploadFile_KeepStatus(s) ==
    IF ~Truthy(s.file) THEN s
    ELSE [s EXCEPT !.isUploading = TRUE,
                   !.uploadTimers = Append(@, s.file)]

\* uploadFile up to its await: the continuation keeps the file of this render
uploadFile(s) ==
    IF ~Truthy(s.file) THEN s
    ELSE [s EXCEPT !.isUploading = TRUE,
                   !.uploadStatus = Null,
                   !.uploadTimers = Append(@, s.file)]

\* uploadFile from its await on, without the finally block
uploadFileResume_NoFinally(s, outcome) ==
    LET f == Head(s.uploadTimers)
    IN  [s EXCEPT !.uploadStatus =
                      IF outcome = "resolve" /\ Truthy(f)
                      THEN UploadSuccess(f) ELSE UploadError,
                  !.uploadTimers = Tail(@)]

\* uploadFile from its await on, reading the file selected when the timer fires
uploadFileResume_CurrentFile(s, outcome) ==
    [s EXCEPT !.uploadStatus =
                  IF outcome = "resolve" /\ Truthy(s.file)
                  THEN UploadSuccess(s.file) ELSE UploadError,
              !.isUploading = FALSE,
              !.uploadTimers = Tail(@)]

\* uploadFile from its await on: try body or catch, then finally
uploadFileResume(s, outcome) ==
    LET f == Head(s.uploadTimers)
    IN  [s EXCEPT !.uploadStatus =
                      IF outcome = "resolve" /\ Truthy(f)
                      THEN UploadSuccess(f) ELSE UploadError,
                  !.isUploading = FALSE,
                  !.uploadTimers = Tail(@)]

\* askQuestion testing the question without trim()
askQuestion_NoTrim(s) ==
    IF s.question = <<>> THEN s
    ELSE [s EXCEPT !.isAsking = TRUE,
                   !.askTimers = Append(@, s.question)]

\* askQuestion up to its await: the continuation keeps the question of this render
askQuestion(s) ==
    IF trim(s.question) = <<>> THEN s
    ELSE [s EXCEPT !.isAsking = TRUE,
                   !.askTimers = Append(@, s.question)]

\* askQuestion from its await on, its finally block clearing both busy flags
askQuestionResume_ClearsBoth(s, outcome) ==
    LET q == Head(s.askTimers)
    IN  [s EXCEPT !.report =
                      IF outcome = "resolve" THEN ReportFor(q) ELSE ReportError,
                  !.isAsking = FALSE,
                  !.isUploading = FALSE,
                  !.askTimers = Tail(@)]

\* askQuestion from its await on
askQuestionResume(s, outcome) ==
    LET q == Head(s.askTimers)
    IN  [s EXCEPT !.report =
                      IF outcome = "resolve" THEN ReportFor(q) ELSE ReportError,
                  !.isAsking = FALSE,
                  !.askTimers = Tail(@)]

handleDragOver(s) == [s EXCEPT !.isDragging = TRUE]

handleDragLeave(s) == [s EXCEPT !.isDragging = FALSE]

\* handleDrop without the test of the dropped file's type
handleDrop_AnyType(s, droppedFile) ==
    LET t == [s EXCEPT !.isDragging = FALSE]
    IN  IF Truthy(droppedFile)
        THEN [t EXCEPT !.file = droppedFile]
        ELSE t

handleDrop(s, droppedFile) ==
    LET t == [s EXCEPT !.isDragging = FALSE]
    IN  IF Truthy(droppedFile) /\ droppedFile.type = PdfType
        THEN [t EXCEPT !.file = droppedFile]
        ELSE t

\* onChange of the file input
fileInputChange(s, head) == [s EXCEPT !.file = head]

\* onChange of the question input
questionInputChange(s, value) == [s EXCEPT !.question = value]

\* the disabled attributes of the JSX
FileInputDisabled(s) == s.isUploading
\* the upload button disabled only while no file is selected
UploadButtonDisabled_NoFileOnly(s) == ~Truthy(s.file)
UploadButtonDisabled(s) == ~Truthy(s.file) \/ s.isUploading
QuestionInputDisabled(s) == s.isAsking
SendButtonDisabled(s) == trim(s.question) = <<>> \/ s.isAsking

-----------------------------------------------------------------------------
(* Actions *)

Event(op, item, before) == [op |-> op, item |-> item, before |-> before]

\* the re-render after a handler: every cell takes its new value; lastEvent
\* records the handler that ran, the item it was handed and the upload
\* outcome on display when it ran
Apply(n, ev) ==
    /\ file' = n.file
    /\ question' = n.question
    /\ report' = n.report
    /\ isUploading' = n.isUploading
    /\ isAsking' = n.isAsking
    /\ uploadStatus' = n.uploadStatus
    /\ isDragging' = n.isDragging
    /\ uploadTimers' = n.uploadTimers
    /\ askTimers' = n.askTimers
    /\ lastEvent' = ev

Init ==
    /\ file = InitState.file
    /\ question = InitState.question
    /\ report = InitState.report
    /\ isUploading = InitState.isUploading
    /\ isAsking = InitState.isAsking
    /\ uploadStatus = InitState.uploadStatus
    /\ isDragging = InitState.isDragging
    /\ uploadTimers = InitState.uploadTimers
    /\ askTimers = InitState.askTimers
    /\ lastEvent = Event("mount", Null, Null)

FileInputChange ==
    /\ ~FileInputDisabled(St)
    /\ \E head \in FileListHead :
          Apply(fileInputChange(St, head), Event("fileInputChange", head, Null))

QuestionInputChange ==
    /\ ~QuestionInputDisabled(St)
    /\ \E value \in Questions :
          Apply(questionInputChange(St, value),
                Event("questionInputChange", Null, Null))

DragOver == Apply(handleDragOver(St), Event("handleDragOver", Null, Null))

DragLeave == Apply(handleDragLeave(St), Event("handleDragLeave", Null, Null))

Drop ==
    \E droppedFile \in FileListHead :
        Apply(handleDrop(St, droppedFile), Event("handleDrop", droppedFile, Null))

UploadClick ==
    /\ ~UploadButtonDisabled(St)
    /\ Apply(uploadFile(St), Event("uploadFile", Null, uploadStatus))

SendClick ==
    /\ ~SendButtonDisabled(St)
    /\ Apply(askQuestion(St), Event("askQuestion", Null, Null))

QuestionEnter ==
    /\ ~QuestionInputDisabled(St)
    /\ Apply(askQuestion(St), Event("askQuestion", Null, Null))

UploadTimerFires ==
    /\ uploadTimers # <<>>
    /\ \E outcome \in UploadDelayOutcomes :
          Apply(uploadFileResume(St, outcome),
                Event("uploadFileResume", Null, uploadStatus))

AskTimerFires ==
    /\ askTimers # <<>>
    /\ \E outcome \in AskDelayOutcomes :
          Apply(askQuestionResume(St, outcome),
                Event("askQuestionResume", Null, Null))

Next ==
    \/ FileInputChange
    \/ QuestionInputChange
    \/ DragOver
    \/ DragLeave
    \/ Drop
    \/ UploadClick
    \/ SendClick
    \/ QuestionEnter
    \/ UploadTimerFires
    \/ AskTimerFires

Spec == Init /\ [][Next]_vars

\* the timers fire: setTimeout calls back once its delay has passed
LiveSpec == Spec /\ WF_vars(UploadTimerFires) /\ WF_vars(AskTimerFires)

\* uploadFile called on its own as well, whatever the disabled attribute of
\* its button says: every behaviour of Spec is one of HandlerSpec.
InvokeUploadFile ==
    /\ Len(uploadTimers) < MaxInFlight
    /\ Apply(uploadFile(St), Event("uploadFile", Null, uploadStatus))

HandlerNext ==
    \/ Next
    \/ InvokeUploadFile

HandlerSpec == Init /\ [][HandlerNext]_vars

-----------------------------------------------------------------------------
(* Claims *)

\* C1: a call of uploadFile in a state where no file is selected changes no
\* cell of the component's state and schedules no continuation.
C1_UploadWithoutFileIsNoOp ==
    [][(lastEvent'.op = "uploadFile" /\ ~Truthy(file)) => UNCHANGED progVars]_vars

C1_Witness ==
    /\ lastEvent.op = "uploadFile"
    /\ ~Truthy(file)
    /\ uploadTimers = <<>>
    /\ ~isUploading


\* s occurs in t as a run of consecutive elements
Contains(t, s) ==
    \E i \in 0..(Len(t) - Len(s)) :
        \A j \in 1..Len(s) : t[i + j] = s[j]

IsSuccess(u) == u # Null /\ u.type = "success"
IsError(u) == u # Null /\ u.type = "error"

\* C2: a call of uploadFile with a file selected sets isUploading and schedules
\* the continuation holding that file; isUploading is true for as long as a
\* continuation waits; the wait always ends; and the step that ends it leaves
\* isUploading false and uploadStatus a success whose message contains the
\* name of the file the continuation holds.
C2_UploadRunsThenSucceeds ==
    /\ [][(lastEvent'.op = "uploadFile" /\ Truthy(file))
            => (isUploading' /\ uploadTimers' = <<file>>)]_vars
    /\ [](uploadTimers # <<>> => isUploading)
    /\ [][Len(uploadTimers') < Len(uploadTimers)
            => /\ uploadTimers' = <<>>
               /\ ~isUploading'
               /\ IsSuccess(uploadStatus')
               /\ Contains(uploadStatus'.message, Head(uploadTimers).name)]_vars
    /\ (uploadTimers # <<>>) ~> (uploadTimers = <<>>)

C2_Witness ==
    /\ lastEvent.op = "uploadFileResume"
    /\ uploadTimers = <<>>
    /\ ~isUploading
    /\ IsSuccess(uploadStatus)
    /\ \E f \in Files : Contains(uploadStatus.message, f.name)

\* every character of q is white space (the empty text included)
Blank(q) == \A i \in 1..Len(q) : q[i] \in WhiteSpace

\* C3: a call of askQuestion (send button or Enter) in a state where the
\* question is empty or all white space changes no cell of the component's
\* state and schedules no continuation.
C3_AskBlankIsNoOp ==
    [][(lastEvent'.op = "askQuestion" /\ Blank(question))
         => UNCHANGED progVars]_vars

C3_Witness ==
    /\ lastEvent.op = "askQuestion"
    /\ question # <<>>
    /\ Blank(question)
    /\ askTimers = <<>>
    /\ ~isAsking

\* r is the canned report with exactly q between its quotation marks
IsReportEchoing(r, q) ==
    /\ Len(r) = Len(q) + 4
    /\ SubSeq(r, 1, 2) = ReportPrefix
    /\ SubSeq(r, 3, Len(q) + 2) = q
    /\ SubSeq(r, Len(q) + 3, Len(q) + 4) = ReportSuffix

\* C4: a call of askQuestion with a non-blank question q sets isAsking and
\* schedules the continuation holding q; isAsking is true for as long as a
\* continuation waits; the wait always ends; and the step that ends it leaves
\* isAsking false and report the canned report echoing q as typed, untrimmed.
C4_AskRunsThenReports ==
    /\ [][(lastEvent'.op = "askQuestion" /\ ~Blank(question))
            => (isAsking' /\ askTimers' = <<question>>)]_vars
    /\ [](askTimers # <<>> => isAsking)
    /\ [][Len(askTimers') < Len(askTimers)
            => /\ askTimers' = <<>>
               /\ ~isAsking'
               /\ IsReportEchoing(report', Head(askTimers))]_vars
    /\ (askTimers # <<>>) ~> (askTimers = <<>>)

C4_Witness ==
    /\ lastEvent.op = "askQuestionResume"
    /\ askTimers = <<>>
    /\ ~isAsking
    /\ \E q \in Questions :
          /\ trim(q) # q
          /\ IsReportEchoing(report, q)

IsPdf(d) == d.kind = "File" /\ d.type = "application/pdf"

\* C5: a drop clears isDragging and leaves uploadStatus alone; it stores the
\* dropped file when its type is exactly application/pdf and otherwise (another
\* type, or no file) leaves the selected file as it was.
C5_DropTakesOnlyPdf ==
    [][lastEvent'.op = "handleDrop"
         => /\ isDragging' = FALSE
            /\ uploadStatus' = uploadStatus
            /\ file' = IF IsPdf(lastEvent'.item) THEN lastEvent'.item ELSE file]_vars

C5_Witness ==
    /\ lastEvent.op = "handleDrop"
    /\ IsPdf(lastEvent.item)
    /\ file = lastEvent.item
    /\ ~isDragging

\* C6: never more than one uploadFile continuation and never more than one
\* askQuestion continuation waits; uploadFile is called only with a file
\* selected and isUploading false, askQuestion only with isAsking false.
C6_OneInFlightEach ==
    /\ [](Len(uploadTimers) <= 1 /\ Len(askTimers) <= 1)
    /\ [][/\ lastEvent'.op = "uploadFile" => (Truthy(file) /\ ~isUploading)
          /\ lastEvent'.op = "askQuestion" => ~isAsking]_vars

C6_Witness ==
    /\ Len(uploadTimers) = 1
    /\ Len(askTimers) = 1
    /\ Truthy(file)
    /\ ~Blank(question)
    /\ isUploading
    /\ isAsking

\* C7: once a file is selected, a file is selected in every later state.
C7_FileNeverRemoved ==
    [][Truthy(file) => Truthy(file')]_vars

\* C8: uploadStatus is never an error and report is never the failure text.
C8_NoErrorState ==
    /\ ~IsError(uploadStatus)
    /\ report # <<"Error processing your question. Please try again.">>

C8_Witness ==
    /\ lastEvent.op \in {"uploadFileResume", "askQuestionResume"}
    /\ IsSuccess(uploadStatus)
    /\ report # <<>>
    /\ uploadTimers = <<>>
    /\ askTimers = <<>>

\* C9: while an uploadFile continuation waits uploadStatus is null; a call of
\* uploadFile with a file selected sets it to null; and only a call of
\* uploadFile or the end of one changes it.
C9_StatusOnlyFromUpload ==
    /\ [](uploadTimers # <<>> => uploadStatus = Null)
    /\ [][/\ (lastEvent'.op = "uploadFile" /\ Truthy(file))
               => uploadStatus' = Null
          /\ uploadStatus' # uploadStatus
               => lastEvent'.op \in {"uploadFile", "uploadFileResume"}]_vars

C9_Witness ==
    /\ lastEvent.op = "uploadFile"
    /\ IsSuccess(lastEvent.before)
    /\ uploadTimers # <<>>
    /\ uploadStatus = Null

\* C10: a step of askQuestion (its call or its end) leaves file, uploadStatus
\* and isUploading alone, a step of uploadFile leaves question, report and
\* isAsking alone, and with one of each waiting the two ends reach the same
\* state in either order.
C10_UploadAndAskIndependent ==
    /\ [][/\ lastEvent'.op \in {"askQuestion", "askQuestionResume"}
               => UNCHANGED <<file, uploadStatus, isUploading>>
          /\ lastEvent'.op \in {"uploadFile", "uploadFileResume"}
               => UNCHANGED <<question, report, isAsking>>]_vars
    /\ []((uploadTimers # <<>> /\ askTimers # <<>>)
            => \A ou \in UploadDelayOutcomes, oa \in AskDelayOutcomes :
                  askQuestionResume(uploadFileResume(St, ou), oa)
                    = uploadFileResume(askQuestionResume(St, oa), ou))

C10_Witness ==
    /\ uploadTimers # <<>>
    /\ askTimers # <<>>
    /\ lastEvent.op \in {"uploadFile", "askQuestion"}

\* C11: while isUploading is true the file input takes no change but a drop
\* still replaces the selected file; the continuation keeps the file that was
\* selected at the call of uploadFile until its timer fires, and the success
\* message then names that file, whatever file is selected by then.
C11_MessageNamesFileAtCall ==
    [][/\ lastEvent'.op = "fileInputChange" => ~isUploading
       /\ (lastEvent'.op = "uploadFile" /\ Truthy(file))
            => uploadTimers' = <<file>>
       /\ (uploadTimers # <<>> /\ lastEvent'.op # "uploadFileResume")
            => uploadTimers' = uploadTimers
       /\ lastEvent'.op = "uploadFileResume"
            => uploadStatus' =
                 [type |-> "success",
                  message |-> <<"PDF uploaded: ">> \o Head(uploadTimers).name]]_vars

C11_Witness ==
    /\ lastEvent.op = "uploadFileResume"
    /\ IsSuccess(uploadStatus)
    /\ Truthy(file)
    /\ ~Contains(uploadStatus.message, file.name)
    /\ \E f \in Files : f # file /\ Contains(uploadStatus.message, f.name)

====
